---- MODULE Spec2Model ----
(***************************************************************************)
(* The fish behaviour state machine of src/src/steering/FishBehavior.ts.   *)
(*                                                                         *)
(* Units.  Vectors are triples <<x, y, z>> of integers.                    *)
(*   - positions (head, food targets) are measured in steps of 0.25 world  *)
(*     units, so the default approachThreshold 0.5 is 2 steps;             *)
(*   - deltaTime and the timer are measured in half seconds, so the        *)
(*     default eatDuration 1 s is 2 and restDuration 2 s is 4;             *)
(*   - velocities are measured in steps of 0.001, the literal that         *)
(*     enterStationaryState compares velocity.length() with;               *)
(*   - unit directions are stored multiplied by DirScale.                  *)
(* Lengths are compared through their squares, which is exact.             *)
(***************************************************************************)
EXTENDS Integers, Sequences, FiniteSets

\* ---------------------------------------------------------------- bounds
\* largest x coordinate (in steps) of a head position or a food target
MaxCoord == 2
\* largest deltaTime (in half seconds) passed to one update
MaxDelta == 2
\* number of setFoodTarget calls in one run
MaxTargets == 3

\* ------------------------------------------------------ program constants
\* FishState
WANDER == "wander"
APPROACH == "approach"
EAT == "eat"
REST == "rest"
TALK == "talk"
FishState == {WANDER, APPROACH, EAT, REST, TALK}

\* default options of the constructor
approachThreshold == 2
restDuration == 4
eatDuration == 2

\* bounds: { min: -10, max: 10 }, in steps of 0.25
boundsMin == -40
boundsMax == 40
\* the options the constructor uses where none are given
DefaultOptions ==
  [approachThreshold |-> approachThreshold,
   restDuration |-> restDuration,
   eatDuration |-> eatDuration,
   bounds |-> [min |-> boundsMin, max |-> boundsMax]]

\* velocity.length() > 0.001, in steps of 0.001
VelocityEpsilon == 1
\* length of a stored unit direction
DirScale == 5

\* ------------------------------------------------------------- vectors
\* null for a THREE.Vector3 | null field
NullVec == <<>>
\* null for the target field: no object
NullTarget == [id |-> 0, pos |-> NullVec]

LengthSq(v) == v[1] * v[1] + v[2] * v[2] + v[3] * v[3]
Sub(a, b) == <<a[1] - b[1], a[2] - b[2], a[3] - b[3]>>

\* integer square root, exact on the squares the inputs produce
ISqrt(n) == CHOOSE r \in 0..n : r * r <= n /\ (r + 1) * (r + 1) > n

\* Vector3.normalize(): v / |v|, the result stored multiplied by DirScale
Normalize(v) ==
  LET l == ISqrt(LengthSq(v))
  IN  <<(v[1] * DirScale) \div l, (v[2] * DirScale) \div l, (v[3] * DirScale) \div l>>

\* new THREE.Vector3(0, 0, 1)
Forward == <<0, 0, DirScale>>

\* ------------------------------------------------------------- inputs
\* points handed to setFoodTarget (pointer clicks on the ground plane, y = 0)
Points == {<<x, 0, 0>> : x \in {0, MaxCoord}}
\* head positions handed to update and startTalking
HeadPositions == {<<x, 0, 0>> : x \in 0..MaxCoord}
\* velocities handed to update and startTalking: one exactly 0.001 long and
\* a longer one whose length is a whole number
Velocities == {<<1, 0, 0>>, <<6, 0, 8>>}
DeltaTimes == 0..MaxDelta

VARIABLES
  state,               \* this.state
  target,              \* this.target
  targetQueue,         \* this.targetQueue
  timer,               \* this.timer
  stationaryPosition,  \* this.stationaryPosition
  stationaryDirection, \* this.stationaryDirection
  options,             \* this.options
  onEatCalls,          \* number of invocations of options.onEat so far
  accepted,            \* number of setFoodTarget calls so far (ids of the clones)
  eatToRest,           \* history: number of steps from EAT to REST so far
  eaten,               \* history: ids of the targets current when onEat fired
  wasCurrent,          \* history: ids of the targets that have been this.target
  resetAt,             \* history: value of accepted at the last resetTarget
  pre,                 \* history: the fields before the last operation
  last,                \* history: the last operation and its arguments
  scen,                \* history: progress through two call sequences
  headRef,             \* headRef.current.position
  currentVelocity,     \* currentVelocity.current
  wanderTarget,        \* wanderTargetRef.current
  lastWanderUpdate,    \* lastWanderUpdateRef.current
  timeRef,             \* timeRef.current
  priorPos,            \* history: the head position before the last movement
  inputs,              \* history: number of pointer and key events so far
  tailPositions,       \* tailPositions.current
  tailCount,           \* tailCount as the last render gave it to the callbacks
  tailCountState,      \* tailCount as setTailCount left it
  lastHeadDir,         \* lastHeadDir.current
  restDirection,       \* fishBehavior.restDirection, a field only key r writes
  thrown,              \* history: a frame has thrown
  origin               \* history: the head position when the object was created

\* the head of the fish in the scene
body == <<headRef, currentVelocity, wanderTarget, lastWanderUpdate,
          timeRef, priorPos, inputs, tailPositions, tailCount, tailCountState,
          lastHeadDir, restDirection, thrown, origin>>

vars == <<state, target, targetQueue, timer, stationaryPosition,
          stationaryDirection, options, onEatCalls, accepted, eatToRest, eaten,
          wasCurrent, resetAt, pre, last, scen, body>>

\* the object as a record
Self ==
  [state |-> state, target |-> target, targetQueue |-> targetQueue,
   timer |-> timer, stationaryPosition |-> stationaryPosition,
   stationaryDirection |-> stationaryDirection, options |-> options,
   onEatCalls |-> onEatCalls]

\* ------------------------------------------------------------ methods
\* constructor(options): given is { defaults, ...options }
Constructor(given) ==
  [state |-> TALK, target |-> NullTarget, targetQueue |-> <<>>,
   timer |-> 0, stationaryPosition |-> NullVec,
   stationaryDirection |-> NullVec, options |-> given, onEatCalls |-> 0]

\* new FishBehavior()
Constructed == Constructor(DefaultOptions)

\* setFoodTarget that replaces the current target instead of queueing
setFoodTarget_Replace(s, t) ==
  IF s.state # TALK
  THEN [s EXCEPT !.target = t, !.state = APPROACH, !.timer = 0]
  ELSE [s EXCEPT !.target = t]

\* setFoodTarget that starts the approach again when it queues a target
setFoodTarget_Restart(s, t) ==
  IF s.target = NullTarget
  THEN IF s.state # TALK
       THEN [s EXCEPT !.target = t, !.state = APPROACH, !.timer = 0]
       ELSE [s EXCEPT !.target = t]
  ELSE IF s.state # TALK
       THEN [s EXCEPT !.targetQueue = Append(@, t), !.state = APPROACH,
                      !.timer = 0]
       ELSE [s EXCEPT !.targetQueue = Append(@, t)]

\* setFoodTarget that leaves the first target of WANDER to the next update
setFoodTarget_Deferred(s, t) ==
  IF s.target = NullTarget /\ s.state # WANDER
  THEN IF s.state # TALK
       THEN [s EXCEPT !.target = t, !.state = APPROACH, !.timer = 0]
       ELSE [s EXCEPT !.target = t]
  ELSE [s EXCEPT !.targetQueue = Append(@, t)]

\* setFoodTarget(target): t is the clone of the given point
setFoodTarget(s, t) ==
  IF s.target = NullTarget
  THEN IF s.state # TALK
       THEN [s EXCEPT !.target = t, !.state = APPROACH, !.timer = 0]
       ELSE [s EXCEPT !.target = t]
  ELSE [s EXCEPT !.targetQueue = Append(@, t)]

\* enterStationaryState that stores the velocity without normalizing it
enterStationaryState_Raw(s, st, position, velocity) ==
  [s EXCEPT
     !.stationaryPosition = position,
     !.stationaryDirection =
        IF LengthSq(velocity) > VelocityEpsilon * VelocityEpsilon
        THEN velocity
        ELSE IF s.stationaryDirection # NullVec
             THEN s.stationaryDirection
             ELSE Forward,
     !.state = st,
     !.timer = 0]

\* enterStationaryState that leaves the timer running
enterStationaryState_KeepTimer(s, st, position, velocity) ==
  [s EXCEPT
     !.stationaryPosition = position,
     !.stationaryDirection =
        IF LengthSq(velocity) > VelocityEpsilon * VelocityEpsilon
        THEN Normalize(velocity)
        ELSE IF s.stationaryDirection # NullVec
             THEN s.stationaryDirection
             ELSE Forward,
     !.state = st]

\* enterStationaryState(state, position, velocity)
enterStationaryState(s, st, position, velocity) ==
  [s EXCEPT
     !.stationaryPosition = position,
     !.stationaryDirection =
        IF LengthSq(velocity) > VelocityEpsilon * VelocityEpsilon
        THEN Normalize(velocity)
        ELSE IF s.stationaryDirection # NullVec
             THEN s.stationaryDirection
             ELSE Forward,
     !.state = st,
     !.timer = 0]

\* exitStationaryState that takes the newest queued target, not the oldest
exitStationaryState_Newest(s) ==
  IF Len(s.targetQueue) > 0
  THEN [s EXCEPT !.target = s.targetQueue[Len(s.targetQueue)],
                 !.targetQueue = SubSeq(s.targetQueue, 1, Len(s.targetQueue) - 1),
                 !.state = APPROACH,
                 !.stationaryPosition = NullVec,
                 !.stationaryDirection = NullVec,
                 !.timer = 0]
  ELSE [s EXCEPT !.state = WANDER,
                 !.target = NullTarget,
                 !.stationaryPosition = NullVec,
                 !.stationaryDirection = NullVec,
                 !.timer = 0]

\* exitStationaryState that copies the queue head without removing it
exitStationaryState_NoShift(s) ==
  IF Len(s.targetQueue) > 0
  THEN [s EXCEPT !.target = Head(s.targetQueue),
                 !.state = APPROACH,
                 !.stationaryPosition = NullVec,
                 !.stationaryDirection = NullVec,
                 !.timer = 0]
  ELSE [s EXCEPT !.state = WANDER,
                 !.target = NullTarget,
                 !.stationaryPosition = NullVec,
                 !.stationaryDirection = NullVec,
                 !.timer = 0]

\* exitStationaryState that leaves the target on the way to WANDER
exitStationaryState_KeepTarget(s) ==
  IF Len(s.targetQueue) > 0
  THEN [s EXCEPT !.target = Head(s.targetQueue),
                 !.targetQueue = Tail(s.targetQueue),
                 !.state = APPROACH,
                 !.stationaryPosition = NullVec,
                 !.stationaryDirection = NullVec,
                 !.timer = 0]
  ELSE [s EXCEPT !.state = WANDER,
                 !.stationaryPosition = NullVec,
                 !.stationaryDirection = NullVec,
                 !.timer = 0]

\* exitStationaryState that goes to APPROACH whether or not a target is queued
exitStationaryState_AlwaysApproach(s) ==
  [s EXCEPT !.target = IF Len(s.targetQueue) > 0
                       THEN Head(s.targetQueue) ELSE NullTarget,
            !.targetQueue = IF Len(s.targetQueue) > 0
                            THEN Tail(s.targetQueue) ELSE <<>>,
            !.state = APPROACH,
            !.stationaryPosition = NullVec,
            !.stationaryDirection = NullVec,
            !.timer = 0]

\* exitStationaryState()
exitStationaryState(s) ==
  IF Len(s.targetQueue) > 0
  THEN [s EXCEPT !.target = Head(s.targetQueue),
                 !.targetQueue = Tail(s.targetQueue),
                 !.state = APPROACH,
                 !.stationaryPosition = NullVec,
                 !.stationaryDirection = NullVec,
                 !.timer = 0]
  ELSE [s EXCEPT !.state = WANDER,
                 !.target = NullTarget,
                 !.stationaryPosition = NullVec,
                 !.stationaryDirection = NullVec,
                 !.timer = 0]

\* update, case APPROACH, with <= for <
updateApproach_Inclusive(s, headPosition) ==
  IF s.target # NullTarget
     /\ LengthSq(Sub(headPosition, s.target.pos)) <= s.options.approachThreshold * s.options.approachThreshold
  THEN [s EXCEPT !.state = EAT, !.timer = 0]
  ELSE s

\* update, case APPROACH
updateApproach(s, headPosition) ==
  IF s.target # NullTarget
     /\ LengthSq(Sub(headPosition, s.target.pos)) < s.options.approachThreshold * s.options.approachThreshold
  THEN [s EXCEPT !.state = EAT, !.timer = 0]
  ELSE s

\* update, case EAT, with onEat invoked on every update made in EAT
updateEat_EveryTick(s, headPosition, velocity, deltaTime) ==
  LET t == [s EXCEPT !.timer = @ + deltaTime, !.onEatCalls = @ + 1]
  IN  IF t.timer >= s.options.eatDuration
      THEN enterStationaryState(t, REST, headPosition, velocity)
      ELSE t

\* update, case EAT, with > for >=
updateEat_Late(s, headPosition, velocity, deltaTime) ==
  LET t == [s EXCEPT !.timer = @ + deltaTime]
  IN  IF t.timer > s.options.eatDuration
      THEN enterStationaryState([t EXCEPT !.onEatCalls = @ + 1], REST,
                                headPosition, velocity)
      ELSE t

\* update, case EAT
updateEat(s, headPosition, velocity, deltaTime) ==
  LET t == [s EXCEPT !.timer = @ + deltaTime]
  IN  IF t.timer >= s.options.eatDuration
      THEN enterStationaryState([t EXCEPT !.onEatCalls = @ + 1], REST,
                                headPosition, velocity)
      ELSE t

\* update, case REST, that measures each frame by itself
updateRest_Restart(s, deltaTime) ==
  LET t == [s EXCEPT !.timer = deltaTime]
  IN  IF t.timer >= s.options.restDuration THEN exitStationaryState(t) ELSE t

\* update, case REST
updateRest(s, deltaTime) ==
  LET t == [s EXCEPT !.timer = @ + deltaTime]
  IN  IF t.timer >= s.options.restDuration THEN exitStationaryState(t) ELSE t

\* update, case WANDER, that starts an approach without anything queued
updateWander_Restless(s) ==
  IF s.target = NullTarget
  THEN [s EXCEPT !.state = APPROACH, !.timer = 0]
  ELSE s

\* update, case WANDER
updateWander(s) ==
  IF s.target = NullTarget /\ Len(s.targetQueue) > 0
  THEN [s EXCEPT !.target = Head(s.targetQueue),
                 !.targetQueue = Tail(s.targetQueue),
                 !.state = APPROACH,
                 !.timer = 0]
  ELSE s

\* update whose TALK case counts time and ends like REST
update_TalkRests(s, headPosition, velocity, deltaTime) ==
  CASE s.state = APPROACH -> updateApproach(s, headPosition)
    [] s.state = EAT -> updateEat(s, headPosition, velocity, deltaTime)
    [] s.state = REST -> updateRest(s, deltaTime)
    [] s.state = WANDER -> updateWander(s)
    [] s.state = TALK -> updateRest(s, deltaTime)

\* update whose APPROACH case falls through into the EAT case
update_FallThrough(s, headPosition, velocity, deltaTime) ==
  CASE s.state = APPROACH ->
         LET arrived == updateApproach(s, headPosition)
         IN IF arrived.state = EAT
            THEN updateEat(arrived, headPosition, velocity, deltaTime)
            ELSE arrived
    [] s.state = EAT -> updateEat(s, headPosition, velocity, deltaTime)
    [] s.state = REST -> updateRest(s, deltaTime)
    [] s.state = WANDER -> updateWander(s)
    [] s.state = TALK -> s

\* update(headPosition, velocity, deltaTime)
update(s, headPosition, velocity, deltaTime) ==
  CASE s.state = APPROACH -> updateApproach(s, headPosition)
    [] s.state = EAT -> updateEat(s, headPosition, velocity, deltaTime)
    [] s.state = REST -> updateRest(s, deltaTime)
    [] s.state = WANDER -> updateWander(s)
    [] s.state = TALK -> s

\* startTalking that acts only in WANDER and REST
startTalking_OnlyIdle(s, position, velocity) ==
  IF s.state \in {WANDER, REST}
  THEN enterStationaryState(s, TALK, position, velocity)
  ELSE s

\* startTalking without the test of the state
startTalking_Recapture(s, position, velocity) ==
  enterStationaryState(s, TALK, position, velocity)

\* startTalking(position, velocity)
startTalking(s, position, velocity) ==
  IF s.state # TALK
  THEN enterStationaryState(s, TALK, position, velocity)
  ELSE s

\* stopTalking that always returns to WANDER
stopTalking_ToWander(s) ==
  IF s.state = TALK
  THEN [s EXCEPT !.state = WANDER,
                 !.target = NullTarget,
                 !.stationaryPosition = NullVec,
                 !.stationaryDirection = NullVec,
                 !.timer = 0]
  ELSE s

\* stopTalking()
stopTalking(s) ==
  IF s.state = TALK THEN exitStationaryState(s) ELSE s

\* resetTarget that leaves the queue
resetTarget_KeepQueue(s) ==
  [s EXCEPT !.target = NullTarget,
            !.stationaryPosition = NullVec,
            !.stationaryDirection = NullVec,
            !.state = WANDER,
            !.timer = 0]

\* resetTarget()
resetTarget(s) ==
  [s EXCEPT !.target = NullTarget,
            !.targetQueue = <<>>,
            !.stationaryPosition = NullVec,
            !.stationaryDirection = NullVec,
            !.state = WANDER,
            !.timer = 0]

\* ------------------------------------------------------------ history
NoArgs == [p |-> NullVec, head |-> NullVec, vel |-> NullVec, dt |-> 0]
Call(op, args) ==
  [op |-> op, p |-> args.p, head |-> args.head, vel |-> args.vel, dt |-> args.dt]
NoScen == [tag |-> "none", p1 |-> NullVec, p2 |-> NullVec]

\* progress through the sequences
\*   startTalking in WANDER; setFoodTarget(p1); update*; stopTalking
\*   setFoodTarget(p1) in WANDER without target; setFoodTarget(p2)
NextScen(op, p) ==
  CASE op = "startTalking" /\ state = WANDER ->
         [NoScen EXCEPT !.tag = "talk"]
    [] op = "setFoodTarget" /\ scen.tag = "talk" ->
         [NoScen EXCEPT !.tag = "talkfed", !.p1 = p]
    [] op = "update" /\ scen.tag = "talkfed" -> scen
    [] op = "stopTalking" /\ scen.tag = "talkfed" ->
         [scen EXCEPT !.tag = "talkstop"]
    [] op = "setFoodTarget" /\ scen.tag # "talk" /\ scen.tag # "fed1"
          /\ state = WANDER /\ target = NullTarget ->
         [NoScen EXCEPT !.tag = "fed1", !.p1 = p]
    [] op = "setFoodTarget" /\ scen.tag = "fed1" ->
         [scen EXCEPT !.tag = "fed2", !.p2 = p]
    [] OTHER -> NoScen

\* the object becomes r
Fields(r) ==
  /\ state' = r.state
  /\ target' = r.target
  /\ targetQueue' = r.targetQueue
  /\ timer' = r.timer
  /\ stationaryPosition' = r.stationaryPosition
  /\ stationaryDirection' = r.stationaryDirection
  /\ options' = r.options
  /\ onEatCalls' = r.onEatCalls

\* the object becomes r; the history records the call and the fields before
Becomes(r, op, args) ==
  /\ Fields(r)
  /\ eatToRest' = eatToRest + (IF state = EAT /\ r.state = REST THEN 1 ELSE 0)
  /\ UNCHANGED <<eaten, wasCurrent, resetAt, body>>
  /\ pre' = Self
  /\ last' = Call(op, args)
  /\ scen' = NextScen(op, args.p)

\* useState(4): the number of tail segments
InitialTailCount == 4
\* unit vectors of the scene are stored multiplied by UnitScale
UnitScale == 1000

\* the refs of the Fish component once its first effects have run; tail
\* positions are in steps of 0.001
Mounted ==
  [position |-> <<0, 0, 0>>, velocity |-> <<0, 0, 0>>,
   wanderTarget |-> <<0, 0, 0>>, lastWanderUpdate |-> 0,
   tailPositions |-> [i \in 1..InitialTailCount |-> <<0, -500 * i, 0>>],
   lastHeadDir |-> <<0, 0, UnitScale>>]

\* the head starts as m, at time 0
Placed(m) ==
  /\ headRef = m.position
  /\ currentVelocity = m.velocity
  /\ wanderTarget = m.wanderTarget
  /\ lastWanderUpdate = m.lastWanderUpdate
  /\ timeRef = 0
  /\ priorPos = m.position
  /\ inputs = 0
  /\ tailPositions = m.tailPositions
  /\ tailCount = InitialTailCount
  /\ tailCountState = InitialTailCount
  /\ lastHeadDir = m.lastHeadDir
  /\ restDirection = NullVec
  /\ thrown = FALSE
  /\ origin = m.position

\* ------------------------------------------------------------ actions
Init ==
  /\ state = Constructed.state
  /\ target = Constructed.target
  /\ targetQueue = Constructed.targetQueue
  /\ timer = Constructed.timer
  /\ stationaryPosition = Constructed.stationaryPosition
  /\ stationaryDirection = Constructed.stationaryDirection
  /\ options = Constructed.options
  /\ onEatCalls = Constructed.onEatCalls
  /\ accepted = 0
  /\ eatToRest = 0
  /\ eaten = {}
  /\ wasCurrent = {}
  /\ resetAt = 0
  /\ pre = Constructed
  /\ last = Call("constructor", NoArgs)
  /\ scen = NoScen
  /\ Placed(Mounted)

SetFoodTarget ==
  \E p \in Points :
    /\ accepted < MaxTargets
    /\ accepted' = accepted + 1
    /\ Becomes(setFoodTarget(Self, [id |-> accepted + 1, pos |-> p]),
               "setFoodTarget", [NoArgs EXCEPT !.p = p])

Update ==
  \E h \in HeadPositions, v \in Velocities, dt \in DeltaTimes :
    /\ Becomes(update(Self, h, v, dt), "update",
               [NoArgs EXCEPT !.head = h, !.vel = v, !.dt = dt])
    /\ UNCHANGED accepted

StartTalking ==
  \E h \in HeadPositions, v \in Velocities :
    /\ Becomes(startTalking(Self, h, v), "startTalking",
               [NoArgs EXCEPT !.head = h, !.vel = v])
    /\ UNCHANGED accepted

StopTalking ==
  /\ Becomes(stopTalking(Self), "stopTalking", NoArgs)
  /\ UNCHANGED accepted

ResetTarget ==
  /\ Becomes(resetTarget(Self), "resetTarget", NoArgs)
  /\ UNCHANGED accepted

Next ==
  \/ SetFoodTarget
  \/ Update
  \/ StartTalking
  \/ StopTalking
  \/ ResetTarget

Spec == Init /\ [][Next]_vars

\* ------------------------------------- the targets, under any options
\* options handed to the constructor: none, and one with each kind of
\* malformed value
Configs ==
  {DefaultOptions,
   [DefaultOptions EXCEPT !.eatDuration = 0],
   [DefaultOptions EXCEPT !.restDuration = -1],
   [DefaultOptions EXCEPT !.approachThreshold = 0],
   [DefaultOptions EXCEPT !.bounds = [min |-> 1, max |-> 1]]}

\* points handed to setFoodTarget: the ground plane is larger than the bounds
ClickPoints == Points \cup {<<boundsMax + 1, 0, 0>>}

\* the object becomes r; the history records what became of each target
Tracks(r, op) ==
  /\ Fields(r)
  /\ eaten' = (IF r.onEatCalls > onEatCalls THEN eaten \cup {target.id} ELSE eaten)
  /\ wasCurrent' = wasCurrent \cup ({r.target.id} \ {NullTarget.id})
  /\ resetAt' = (IF op = "resetTarget" THEN accepted ELSE resetAt)
  /\ UNCHANGED <<eatToRest, pre, last, scen, body>>

\* new FishBehavior(options): the constructor takes any options as they are
InitTargets ==
  \E given \in Configs :
    /\ state = Constructor(given).state
    /\ target = Constructor(given).target
    /\ targetQueue = Constructor(given).targetQueue
    /\ timer = Constructor(given).timer
    /\ stationaryPosition = Constructor(given).stationaryPosition
    /\ stationaryDirection = Constructor(given).stationaryDirection
    /\ options = Constructor(given).options
    /\ onEatCalls = Constructor(given).onEatCalls
    /\ accepted = 0
    /\ eatToRest = 0
    /\ eaten = {}
    /\ wasCurrent = {}
    /\ resetAt = 0
    /\ pre = Constructed
    /\ last = Call("constructor", NoArgs)
    /\ scen = NoScen
    /\ Placed(Mounted)

TSetFoodTarget ==
  \E p \in ClickPoints :
    /\ accepted < MaxTargets
    /\ accepted' = accepted + 1
    /\ Tracks(setFoodTarget(Self, [id |-> accepted + 1, pos |-> p]),
              "setFoodTarget")

TUpdate ==
  \E h \in HeadPositions, v \in Velocities, dt \in DeltaTimes :
    /\ Tracks(update(Self, h, v, dt), "update")
    /\ UNCHANGED accepted

TStartTalking ==
  \E h \in HeadPositions, v \in Velocities :
    /\ Tracks(startTalking(Self, h, v), "startTalking")
    /\ UNCHANGED accepted

TStopTalking ==
  /\ Tracks(stopTalking(Self), "stopTalking")
  /\ UNCHANGED accepted

TResetTarget ==
  /\ Tracks(resetTarget(Self), "resetTarget")
  /\ UNCHANGED accepted

NextTargets ==
  \/ TSetFoodTarget
  \/ TUpdate
  \/ TStartTalking
  \/ TStopTalking
  \/ TResetTarget

SpecTargets == InitTargets /\ [][NextTargets]_vars

\* --------------------------------------- the head in the scene (Fish.tsx)
\* Units of this part: positions and velocities are measured in steps of
\* 0.001 world units (velocity is the displacement of one frame), time in
\* tenths of a second.  Divisions round toward zero and lengths round up,
\* so a vector set to a length is never longer than that length.

\* guiConfig, as wanderParams captures it on the first render
maxSpeed == 20
maxSteerForce == 1
slowingRadius == 2000
visionDistance == 5000
forwardDistance == 2500
radius == 1000
updateInterval == 8
arrivalThreshold == 300
boundaryMin == -20000
boundaryMax == 20000
boundaryBuffer == 3000
swayFreq == 1
swayAmplitude == 100

\* the options Fish hands to new FishBehavior
FishOptions ==
  [approachThreshold |-> arrivalThreshold, restDuration |-> 5,
   eatDuration |-> 3, bounds |-> [min |-> boundaryMin, max |-> boundaryMax]]

\* 1000 * Math.sin(k / 10), for k = 0, 1, ...
SineTable ==
  <<0, 99, 198, 295, 389, 479, 564, 644, 717, 783, 841, 891, 932, 963, 985,
    997, 999, 991, 973, 946, 909, 863, 808, 745, 675, 598, 515, 427, 334,
    239, 141, 41, -58, -157, -255, -350, -442, -529, -611, -687, -756,
    -818, -871, -916, -951, -977, -993, -999, -996, -982, -958, -925, -883,
    -832, -772, -705, -631, -550, -464, -373, -279, -182, -83, 16, 116,
    215, 311, 404, 494, 578, 656, 728, 793, 850, 898, 937, 967, 988, 998,
    998, 989, 969, 940, 902, 854, 798, 734, 662, 584, 501, 412, 319, 222,
    124, 24, -75, -174, -271, -366, -457, -544>>
Sine(k) == SineTable[k + 1]

\* wiggle = Math.sin(time * 2) * 0.2: 1000 * cos(wiggle) and 1000 * sin(wiggle)
\* for time = 0, 1, ... tenths of a second
WiggleCosTable ==
  <<1000, 999, 996, 993, 989, 985, 982, 980, 980, 981, 983, 986, 990, 994,
    997, 999, 999, 998, 996, 992, 988, 984, 981, 980, 980, 981, 984, 988,
    992, 995, 998, 999, 999, 998, 995, 991, 987, 983, 981, 980, 980>>
WiggleSinTable ==
  <<0, 39, 77, 112, 142, 167, 185, 195, 198, 193, 180, 160, 134, 102, 66,
    28, -11, -51, -88, -122, -150, -173, -189, -197, -197, -190, -175,
    -153, -125, -92, -55, -16, 23, 62, 98, 131, 158, 178, 192, 198, 196>>
WiggleCos(t) == WiggleCosTable[t + 1]
WiggleSin(t) == WiggleSinTable[t + 1]

\* a / b rounded toward zero
Quot(a, b) == IF a >= 0 THEN a \div b ELSE -((-a) \div b)

Add(a, b) == <<a[1] + b[1], a[2] + b[2], a[3] + b[3]>>

\* v * num / den
Times(v, num, den) ==
  LET d == den
  IN <<Quot(v[1] * num, d), Quot(v[2] * num, d), Quot(v[3] * num, d)>>

\* the least r in lo..hi with r * r >= n
RECURSIVE RootBetween(_, _, _)
RootBetween(n, lo, hi) ==
  IF lo = hi THEN lo
  ELSE LET mid == (lo + hi) \div 2
       IN IF mid * mid >= n THEN RootBetween(n, lo, mid)
          ELSE RootBetween(n, mid + 1, hi)

\* Vector3.length(), rounded up
Length(v) == RootBetween(LengthSq(v), 0, 46340)

\* Vector3.normalize().multiplyScalar(len); normalize leaves the zero vector
SetLength(v, len) ==
  LET l == Length(v)
  IN IF l = 0 THEN v ELSE Times(v, len, l)

\* Vector3.clampLength(0, max)
clampLength(v, max) ==
  IF LengthSq(v) <= max * max THEN v ELSE SetLength(v, max)

\* THREE.MathUtils.clamp
clamp(x, lo, hi) == IF x < lo THEN lo ELSE IF x > hi THEN hi ELSE x

applyBounds(position) ==
  <<clamp(position[1], boundaryMin, boundaryMax), position[2],
    clamp(position[3], boundaryMin, boundaryMax)>>

\* Vector3.lerp(q, num / den)
lerp(p, q, num, den) == Add(p, Times(Sub(q, p), num, den))

\* Vector3.applyAxisAngle((0, 1, 0), angle), c and s being 1000 * cos(angle)
\* and 1000 * sin(angle)
applyAxisAngleY(v, c, s) ==
  <<Quot(v[1] * c + v[3] * s, 1000), v[2], Quot(v[3] * c - v[1] * s, 1000)>>

\* the head as a record
Body ==
  [position |-> headRef, velocity |-> currentVelocity,
   wanderTarget |-> wanderTarget, lastWanderUpdate |-> lastWanderUpdate]

\* desired velocity toward goal, slowing down inside slowingRadius
Desired(position, goal) ==
  LET desired == Sub(goal, position)
      dist == Length(desired)
  IN IF LengthSq(desired) < slowingRadius * slowingRadius
     THEN SetLength(desired, Quot(maxSpeed * dist, slowingRadius))
     ELSE SetLength(desired, maxSpeed)

\* steer toward the desired velocity, move, and clamp to the bounds
Steered(m, position, desired) ==
  LET steer == clampLength(Sub(desired, m.velocity), maxSteerForce)
      velocity == clampLength(Add(m.velocity, steer), maxSpeed)
  IN [m EXCEPT !.velocity = velocity,
               !.position = applyBounds(Add(position, velocity))]

\* the REST and TALK branch of updateMovement
moveStationary(b, m, time) ==
  LET sway == Quot(Sine(time * swayFreq) * swayAmplitude, 1000)
      perp == <<-b.stationaryDirection[3], 0, b.stationaryDirection[1]>>
      targetPos == Add(b.stationaryPosition, Times(perp, sway, DirScale))
  IN [m EXCEPT !.position = lerp(m.position, targetPos, 1, 10)]

\* the WANDER branch of updateMovement; offset is the random offset
moveWander(m, time, offset) ==
  LET position == applyBounds(m.position)
      forward(len) ==
        IF LengthSq(m.velocity) > VelocityEpsilon * VelocityEpsilon
        THEN SetLength(<<m.velocity[1], 0, m.velocity[3]>>, len)
        ELSE <<0, 0, len>>
      visionPoint == Add(position, forward(visionDistance))
      isVisionOut ==
        \/ visionPoint[1] < boundaryMin + boundaryBuffer
        \/ visionPoint[1] > boundaryMax - boundaryBuffer
        \/ visionPoint[3] < boundaryMin + boundaryBuffer
        \/ visionPoint[3] > boundaryMax - boundaryBuffer
      isTargetOut ==
        \/ m.wanderTarget[1] < boundaryMin
        \/ m.wanderTarget[1] > boundaryMax
        \/ m.wanderTarget[3] < boundaryMin
        \/ m.wanderTarget[3] > boundaryMax
      shouldUpdate ==
        \/ time - m.lastWanderUpdate > updateInterval
        \/ LengthSq(Sub(position, m.wanderTarget))
             < arrivalThreshold * arrivalThreshold
        \/ isTargetOut
        \/ isVisionOut
      base ==
        IF isVisionOut
        THEN Add(position,
                 SetLength(Sub(<<0, 0, 0>>, position), forwardDistance))
        ELSE Add(position, forward(forwardDistance))
      newTarget ==
        <<clamp(base[1] + offset[1], boundaryMin, boundaryMax), 0,
          clamp(base[3] + offset[3], boundaryMin, boundaryMax)>>
      refreshed ==
        IF shouldUpdate
        THEN [m EXCEPT !.wanderTarget = newTarget, !.lastWanderUpdate = time]
        ELSE m
  IN Steered(refreshed, position, Desired(position, refreshed.wanderTarget))

\* the APPROACH branch of updateMovement, with a target
moveApproach(b, m, time) ==
  LET desired == applyAxisAngleY(Desired(m.position, b.target.pos),
                                 WiggleCos(time), WiggleSin(time))
  IN Steered(m, m.position, desired)

\* the EAT branch without the damping
moveEat_Undamped(m) ==
  [m EXCEPT !.position = Add(m.position, Times(m.velocity, 102, 100))]

\* the EAT branch of updateMovement
moveEat(m) ==
  [m EXCEPT !.position = Add(m.position, Times(m.velocity, 98, 100))]

\* the branches of updateMovement
Moved(b, m, time, offset) ==
  CASE /\ b.state \in {REST, TALK}
       /\ b.stationaryPosition # NullVec
       /\ b.stationaryDirection # NullVec -> moveStationary(b, m, time)
    [] b.state = WANDER -> moveWander(m, time, offset)
    [] b.state = APPROACH -> moveApproach(b, m, time)
    [] b.state = EAT -> moveEat(m)
    [] OTHER -> m

\* updateMovement without the final clampLength
updateMovement_Unclamped(b, m, time, offset) ==
  IF b.state = APPROACH /\ b.target = NullTarget
  THEN m
  ELSE LET moved == Moved(b, m, time, offset)
       IN [moved EXCEPT !.velocity = Sub(moved.position, m.position)]

\* updateMovement: the head moves as its state says, and the velocity becomes
\* the displacement of the frame, clamped to maxSpeed; APPROACH without a
\* target returns before that
updateMovement(b, m, time, offset) ==
  IF b.state = APPROACH /\ b.target = NullTarget
  THEN m
  ELSE LET moved == Moved(b, m, time, offset)
       IN [moved EXCEPT !.velocity =
             clampLength(Sub(moved.position, m.position), maxSpeed)]

\* ------------------------------------------------ the tail (Fish.tsx)
\* guiConfig.waveAmplitudeBase and guiConfig.waveSpeed
waveAmplitudeBase == 200
waveSpeed == 3

\* spacing = 0.5 * Math.pow(1 - i / tailCount, 1.2), in steps of 0.001, for
\* tailCount = 4, 5, ... and i = 0 .. tailCount - 1
SpacingTable ==
  <<<<500, 354, 217, 94>>,
    <<500, 382, 270, 166, 72>>,
    <<500, 401, 307, 217, 133, 58>>,
    <<500, 415, 333, 255, 180, 111, 48>>,
    <<500, 425, 354, 284, 217, 154, 94, 41>>,
    <<500, 434, 369, 307, 246, 188, 133, 82, 35>>>>
Spacing(i, n) == SpacingTable[n - 3][i + 1]

\* computeTargetDirection; rest is fishBehavior.restDirection and dir is
\* lastHeadDir.current
computeTargetDirection(b, m, rest, dir) ==
  IF b.state = REST /\ rest # NullVec
  THEN rest
  ELSE IF b.state = APPROACH /\ b.target # NullTarget
  THEN LET toTarget == Sub(b.target.pos, m.position)
           candidate == <<toTarget[1], 0, toTarget[3]>>
       IN IF LengthSq(candidate) > VelocityEpsilon * VelocityEpsilon
          THEN SetLength(candidate, UnitScale)
          ELSE dir
  ELSE IF LengthSq(m.velocity) > VelocityEpsilon * VelocityEpsilon
  THEN SetLength(m.velocity, UnitScale)
  ELSE dir

\* curDist > spacing * 1.05, for the vector d from prevPos to the segment
Stretched(d, spacing) ==
  400 * LengthSq(d) > (21 * spacing) * (21 * spacing)

\* one turn of the loop without the correction of the distance
updateSegment_Uncorrected(i, prevPos, old, c) ==
  LET spacing == Spacing(i, c.n)
      perp == <<-c.headDirection[3], 0, c.headDirection[1]>>
      attenuated == Quot(swayAmplitude * (3 * c.n - 2 * i), 3 * c.n)
      sway == Quot(Sine(c.time * swayFreq + 2 * i) * attenuated, 1000)
      speedFactor == clamp(Length(c.velocity) * 10, 200, 1000)
      baseAmp == Quot(waveAmplitudeBase * (c.n - i), c.n)
      waveAmp == Quot(baseAmp * speedFactor, 1000)
      waveOffset == Quot(Sine(c.time * waveSpeed + 5 * i) * waveAmp, 1000)
      aside == IF c.state = REST THEN sway ELSE waveOffset
      basePos == Add(Sub(prevPos, Times(c.headDirection, spacing, UnitScale)),
                     Times(perp, aside, UnitScale))
  IN lerp(old, basePos, 1, 10)

\* one turn of the loop of updateTailSegments: the new position of segment
\* i, whose position was old, behind prevPos; c holds tailCount (n),
\* headDirection, fishBehavior.state, currentVelocity.current and
\* timeRef.current
updateSegment(i, prevPos, old, c) ==
  LET spacing == Spacing(i, c.n)
      perp == <<-c.headDirection[3], 0, c.headDirection[1]>>
      attenuated == Quot(swayAmplitude * (3 * c.n - 2 * i), 3 * c.n)
      sway == Quot(Sine(c.time * swayFreq + 2 * i) * attenuated, 1000)
      speedFactor == clamp(Length(c.velocity) * 10, 200, 1000)
      baseAmp == Quot(waveAmplitudeBase * (c.n - i), c.n)
      waveAmp == Quot(baseAmp * speedFactor, 1000)
      waveOffset == Quot(Sine(c.time * waveSpeed + 5 * i) * waveAmp, 1000)
      aside == IF c.state = REST THEN sway ELSE waveOffset
      basePos == Add(Sub(prevPos, Times(c.headDirection, spacing, UnitScale)),
                     Times(perp, aside, UnitScale))
      eased == lerp(old, basePos, 1, 10)
  IN IF Stretched(Sub(eased, prevPos), spacing)
     THEN Add(prevPos, SetLength(Sub(eased, prevPos), spacing))
     ELSE eased

\* the loop of updateTailSegments from index i on; it ends at tailCount, or
\* at the first index without a position, where it throws
RECURSIVE updateTailFrom(_, _, _, _)
updateTailFrom(i, prevPos, positions, c) ==
  IF i >= c.n \/ i >= Len(positions)
  THEN <<>>
  ELSE LET segment == updateSegment(i, prevPos, positions[i + 1], c)
       IN <<segment>> \o updateTailFrom(i + 1, segment, positions, c)

\* a pass that takes the position each predecessor had before the tick
updateTailSegments_Stale(positions, head, c) ==
  LET count == IF c.n < Len(positions) THEN c.n ELSE Len(positions)
      updated == [i \in 1..count |->
                    updateSegment(i - 1,
                                  IF i = 1 THEN head ELSE positions[i - 1],
                                  positions[i], c)]
  IN updated \o SubSeq(positions, count + 1, Len(positions))

\* updateTailSegments(headDirection)
updateTailSegments(positions, head, c) ==
  LET updated == updateTailFrom(0, head, positions, c)
  IN updated \o SubSeq(positions, Len(updated) + 1, Len(positions))

\* the scene as a record
Scene ==
  [b |-> Self, m |-> Body, tailPositions |-> tailPositions,
   tailCount |-> tailCount, lastHeadDir |-> lastHeadDir,
   restDirection |-> restDirection]

\* a frame that moves the head before it updates the state machine
useFrame_MovementFirst(f, time, delta, offset) ==
  LET m == updateMovement(f.b, f.m, time, offset)
      b == update(f.b, m.position, m.velocity, delta)
      candidate == computeTargetDirection(b, m, f.restDirection, f.lastHeadDir)
      dir == lerp(f.lastHeadDir, candidate, 1, 10)
      c == [n |-> f.tailCount, headDirection |-> dir, state |-> b.state,
            velocity |-> m.velocity, time |-> time]
  IN [f EXCEPT !.b = b, !.m = m, !.lastHeadDir = dir,
               !.tailPositions = updateTailSegments(@, m.position, c)]

\* the callback of useFrame at time time: update, updateMovement,
\* computeTargetDirection and lerp, updateTailSegments
useFrame(f, time, delta, offset) ==
  LET b == update(f.b, f.m.position, f.m.velocity, delta)
      m == updateMovement(b, f.m, time, offset)
      candidate == computeTargetDirection(b, m, f.restDirection, f.lastHeadDir)
      dir == lerp(f.lastHeadDir, candidate, 1, 10)
      c == [n |-> f.tailCount, headDirection |-> dir, state |-> b.state,
            velocity |-> m.velocity, time |-> time]
  IN [f EXCEPT !.b = b, !.m = m, !.lastHeadDir = dir,
               !.tailPositions = updateTailSegments(@, m.position, c)]

\* ------------------------------------------------ the frames of the scene
\* latest time (in tenths of a second) of a frame
MaxTime == 8
\* number of pointer and key events in one run
MaxInputs == 2

\* delta of one frame, in tenths of a second
FrameDeltas == {2, 3}
\* values of the random offset of a new wander target
WanderOffsets == {<<0, 0, 0>>, <<-300, 0, 400>>}
\* points of the ground plane, which is larger than the bounds
GroundPoints == {<<19800, 0, 100>>, <<20500, 0, 0>>}
\* the scene when a FishBehavior is created: on the first render, or later,
\* when a change of the controls makes useMemo create another one; then the
\* head may be close to the wall, on its way to a point clicked beyond it,
\* or may have drifted past the bounds while eating
Starts ==
  {Mounted,
   [Mounted EXCEPT !.position = <<19998, 0, 0>>, !.velocity = <<5, 0, 0>>,
                   !.wanderTarget = <<19998, 0, 0>>,
                   !.tailPositions =
                     <<<<19498, 0, 0>>, <<19148, 0, 0>>, <<18938, 0, 0>>,
                       <<18848, 0, 0>>>>,
                   !.lastHeadDir = <<UnitScale, 0, 0>>],
   [Mounted EXCEPT !.position = <<20027, 0, 0>>, !.velocity = <<18, 0, 0>>,
                   !.wanderTarget = <<20000, 0, 0>>,
                   !.tailPositions =
                     <<<<19527, 0, 0>>, <<19177, 0, 0>>, <<18967, 0, 0>>,
                       <<18877, 0, 0>>>>,
                   !.lastHeadDir = <<UnitScale, 0, 0>>]}

\* the object becomes r and the head becomes m
Lives(r, m) ==
  /\ Fields(r)
  /\ headRef' = m.position
  /\ currentVelocity' = m.velocity
  /\ wanderTarget' = m.wanderTarget
  /\ lastWanderUpdate' = m.lastWanderUpdate
  /\ UNCHANGED <<eatToRest, eaten, wasCurrent, resetAt, pre, last, scen>>

InitMove ==
  \E start \in Starts :
    /\ state = Constructor(FishOptions).state
    /\ target = Constructor(FishOptions).target
    /\ targetQueue = Constructor(FishOptions).targetQueue
    /\ timer = Constructor(FishOptions).timer
    /\ stationaryPosition = Constructor(FishOptions).stationaryPosition
    /\ stationaryDirection = Constructor(FishOptions).stationaryDirection
    /\ options = Constructor(FishOptions).options
    /\ onEatCalls = Constructor(FishOptions).onEatCalls
    /\ accepted = 0
    /\ eatToRest = 0
    /\ eaten = {}
    /\ wasCurrent = {}
    /\ resetAt = 0
    /\ pre = Constructed
    /\ last = Call("constructor", NoArgs)
    /\ scen = NoScen
    /\ Placed(start)

\* one frame: the callback of useFrame; onEat has called setTailCount, and
\* the frame throws when the loop over the tail finds no position. The
\* random offset is drawn in the WANDER branch only, which a frame begun in
\* WANDER or REST can take
Frame ==
  \E delta \in FrameDeltas,
     offset \in (IF state \in {WANDER, REST} THEN WanderOffsets
                 ELSE {<<0, 0, 0>>}) :
    /\ timeRef + delta <= MaxTime
    /\ timeRef' = timeRef + delta
    /\ priorPos' = headRef
    /\ \E f \in {useFrame(Scene, timeRef + delta, delta, offset)} :
         /\ Lives(f.b, f.m)
         /\ tailPositions' = f.tailPositions
         /\ lastHeadDir' = f.lastHeadDir
         /\ tailCountState' = tailCountState + (f.b.onEatCalls - onEatCalls)
    /\ thrown' = (thrown \/ tailCount > Len(tailPositions))
    /\ UNCHANGED <<accepted, inputs, tailCount, restDirection, origin>>

\* the render after setTailCount: the callbacks see the new tailCount; the
\* effects of the render before have run
Render ==
  /\ tailCount # tailCountState
  /\ Len(tailPositions) >= tailCount
  /\ tailCount' = tailCountState
  /\ UNCHANGED <<state, target, targetQueue, timer, stationaryPosition,
                 stationaryDirection, options, onEatCalls, accepted,
                 eatToRest, eaten, wasCurrent, resetAt, pre, last, scen,
                 headRef, currentVelocity, wanderTarget, lastWanderUpdate,
                 timeRef, priorPos, inputs, tailPositions, tailCountState,
                 lastHeadDir, restDirection, thrown, origin>>

\* useEffect([tailCount]): positions for the new segments
Effect ==
  /\ Len(tailPositions) < tailCount
  /\ LET lastPos == IF Len(tailPositions) > 0
                    THEN tailPositions[Len(tailPositions)]
                    ELSE <<0, -500, 0>>
     IN tailPositions' =
          tailPositions \o [i \in 1..(tailCount - Len(tailPositions)) |-> lastPos]
  /\ UNCHANGED <<state, target, targetQueue, timer, stationaryPosition,
                 stationaryDirection, options, onEatCalls, accepted,
                 eatToRest, eaten, wasCurrent, resetAt, pre, last, scen,
                 headRef, currentVelocity, wanderTarget, lastWanderUpdate,
                 timeRef, priorPos, inputs, tailCount, tailCountState,
                 lastHeadDir, restDirection, thrown, origin>>

\* onPointerDown of the ground plane
OnPointerDown ==
  \E pt \in GroundPoints :
    /\ inputs < MaxInputs
    /\ inputs' = inputs + 1
    /\ accepted' = accepted + 1
    /\ Lives(setFoodTarget(Self, [id |-> accepted + 1, pos |-> pt]), Body)
    /\ UNCHANGED <<timeRef, priorPos, tailPositions, tailCount,
                   tailCountState, lastHeadDir, restDirection, thrown, origin>>

\* onKeyDown, key r
KeyR ==
  /\ inputs < MaxInputs
  /\ inputs' = inputs + 1
  /\ Lives(resetTarget(Self), Body)
  /\ restDirection' =
       (IF LengthSq(currentVelocity) > VelocityEpsilon * VelocityEpsilon
        THEN SetLength(currentVelocity, UnitScale)
        ELSE <<0, 0, UnitScale>>)
  /\ UNCHANGED <<accepted, timeRef, priorPos, tailPositions, tailCount,
                 tailCountState, lastHeadDir, thrown, origin>>

\* onKeyDown, key a
KeyA ==
  /\ inputs < MaxInputs
  /\ inputs' = inputs + 1
  /\ Lives([Self EXCEPT !.state = APPROACH], Body)
  /\ UNCHANGED <<accepted, timeRef, priorPos, tailPositions, tailCount,
                 tailCountState, lastHeadDir, restDirection, thrown, origin>>

\* onKeyDown, key w
KeyW ==
  /\ inputs < MaxInputs
  /\ inputs' = inputs + 1
  /\ Lives([Self EXCEPT !.state = WANDER],
           [Body EXCEPT !.wanderTarget = headRef, !.lastWanderUpdate = 0])
  /\ UNCHANGED <<accepted, timeRef, priorPos, tailPositions, tailCount,
                 tailCountState, lastHeadDir, restDirection, thrown, origin>>

\* onKeyDown, key t
KeyT ==
  /\ inputs < MaxInputs
  /\ inputs' = inputs + 1
  /\ Lives(IF state = TALK THEN stopTalking(Self)
           ELSE startTalking(Self, headRef, currentVelocity), Body)
  /\ UNCHANGED <<accepted, timeRef, priorPos, tailPositions, tailCount,
                 tailCountState, lastHeadDir, restDirection, thrown, origin>>

NextMove ==
  \/ Frame
  \/ OnPointerDown
  \/ KeyR
  \/ KeyA
  \/ KeyW
  \/ KeyT
  \/ Render
  \/ Effect

SpecMove == InitMove /\ [][NextMove]_vars

\* ------------------------------- the object under the frames of the scene
\* the object becomes r after calls more calls from outside the frame loop;
\* the history records what became of each target
Ticks(r, calls) ==
  /\ Fields(r)
  /\ eaten' = (IF r.onEatCalls > onEatCalls THEN eaten \cup {target.id} ELSE eaten)
  /\ wasCurrent' = wasCurrent \cup ({r.target.id} \ {NullTarget.id})
  /\ inputs' = inputs + calls
  /\ UNCHANGED <<eatToRest, resetAt, pre, last, scen, headRef,
                 currentVelocity, wanderTarget, lastWanderUpdate, timeRef,
                 priorPos, tailPositions, tailCount, tailCountState,
                 lastHeadDir, restDirection, thrown, origin>>

\* the head at h is within approachThreshold of the current target
Near(h) ==
  LengthSq(Sub(h, target.pos)) < options.approachThreshold * options.approachThreshold

\* onPointerDown: setFoodTarget with a point within the bounds
CallSetFoodTarget ==
  \E p \in Points :
    /\ inputs < MaxInputs
    /\ accepted < MaxTargets
    /\ accepted' = accepted + 1
    /\ Ticks(setFoodTarget(Self, [id |-> accepted + 1, pos |-> p]), 1)

\* key t outside TALK: startTalking
CallStartTalking ==
  \E h \in HeadPositions, v \in Velocities :
    /\ inputs < MaxInputs
    /\ state # TALK
    /\ Ticks(startTalking(Self, h, v), 1)
    /\ UNCHANGED accepted

\* key t in TALK: stopTalking
CallStopTalking ==
  /\ state = TALK
  /\ Ticks(stopTalking(Self), 0)
  /\ UNCHANGED accepted

\* a frame: update with a positive deltaTime
Tick ==
  \E h \in HeadPositions, v \in Velocities, dt \in 1..MaxDelta :
    /\ Ticks(update(Self, h, v, dt), 0)
    /\ UNCHANGED accepted

\* a frame in which the movement has brought the head within
\* approachThreshold of the target
Arrive ==
  \E h \in HeadPositions, v \in Velocities, dt \in 1..MaxDelta :
    /\ state = APPROACH
    /\ target # NullTarget
    /\ Near(h)
    /\ Ticks(update(Self, h, v, dt), 0)
    /\ UNCHANGED accepted

NextTicks ==
  \/ CallSetFoodTarget
  \/ CallStartTalking
  \/ CallStopTalking
  \/ Tick
  \/ Arrive

\* the frames go on, the head reaches a target that lies within the bounds,
\* and a TALK is ended
SpecTicks ==
  /\ Init
  /\ [][NextTicks]_vars
  /\ WF_vars(Tick)
  /\ WF_vars(Arrive)
  /\ WF_vars(CallStopTalking)

\* ------------------------------------------------------------- claims
\* the positions of a sequence of targets
Positions(q) == [i \in 1..Len(q) |-> q[i].pos]

\* C1: after startTalking in WANDER and setFoodTarget(p) right after it, the
\* state stays TALK through any updates, and stopTalking then gives state
\* APPROACH with target == p.
C1_TargetSetInTalkTakesEffect ==
  /\ scen.tag = "talkfed" => state = TALK
  /\ scen.tag = "talkstop" => state = APPROACH /\ target.pos = scen.p1

\* C2: in WANDER without a target setFoodTarget(p1) gives APPROACH, target p1
\* and timer 0; setFoodTarget(p2) right after it leaves APPROACH and target p1
\* and gives targetQueue == [p2].
C2_FirstTargetPursuedSecondQueued ==
  /\ scen.tag = "fed1" =>
       state = APPROACH /\ target.pos = scen.p1 /\ timer = 0
  /\ scen.tag = "fed2" =>
       /\ state = APPROACH
       /\ target.pos = scen.p1
       /\ Positions(targetQueue) = <<scen.p2>>

C2_Witness ==
  scen.tag = "fed2" /\ scen.p1 # scen.p2 /\ Len(targetQueue) = 1

\* C3: resetTarget, whatever the state it is called in, returns with state
\* WANDER, no target, an empty queue, null stationary fields and timer 0.
C3_ResetClearsEverything ==
  last.op = "resetTarget" =>
    /\ state = WANDER
    /\ target = NullTarget
    /\ targetQueue = <<>>
    /\ stationaryPosition = NullVec
    /\ stationaryDirection = NullVec
    /\ timer = 0

C3_Witness ==
  /\ last.op = "resetTarget"
  /\ pre.state = EAT
  /\ pre.timer > 0
  /\ Len(pre.targetQueue) > 0
  /\ state = WANDER

\* C4: onEat is invoked once by each step from EAT to REST and by no other
\* step, so the number of invocations equals the number of such steps.
C4_OnEatOncePerEatToRest ==
  /\ onEatCalls - pre.onEatCalls =
       (IF pre.state = EAT /\ state = REST THEN 1 ELSE 0)
  /\ last.op # "update" => onEatCalls = pre.onEatCalls
  /\ onEatCalls = eatToRest

C4_Witness ==
  /\ last.op = "update"
  /\ pre.state = EAT
  /\ state = REST
  /\ pre.onEatCalls = 1
  /\ onEatCalls = 2

C6_StationaryFieldsIffStationary ==
  /\ (stationaryPosition # NullVec) <=> (state \in {REST, TALK})
  /\ (stationaryDirection # NullVec) <=> (state \in {REST, TALK})

\* C7: a newly constructed FishBehavior is in WANDER with no target, an empty
\* queue, null stationary fields and timer 0.
C7_ConstructedInWander ==
  last.op = "constructor" =>
    /\ state = WANDER
    /\ target = NullTarget
    /\ targetQueue = <<>>
    /\ stationaryPosition = NullVec
    /\ stationaryDirection = NullVec
    /\ timer = 0

\* C8: an update in REST keeps REST while the timer stays below restDuration;
\* the update at which it reaches restDuration makes the first queued target
\* the target, removes it from the queue and goes to APPROACH, or with an
\* empty queue goes to WANDER without target; both clear the stationary fields.
C8_RestTimeout ==
  (last.op = "update" /\ pre.state = REST) =>
    IF pre.timer + last.dt < restDuration
    THEN /\ state = REST
         /\ timer = pre.timer + last.dt
         /\ target = pre.target
         /\ targetQueue = pre.targetQueue
         /\ stationaryPosition = pre.stationaryPosition
         /\ stationaryDirection = pre.stationaryDirection
    ELSE /\ stationaryPosition = NullVec
         /\ stationaryDirection = NullVec
         /\ IF pre.targetQueue # <<>>
            THEN /\ state = APPROACH
                 /\ target = pre.targetQueue[1]
                 /\ targetQueue = Tail(pre.targetQueue)
            ELSE /\ state = WANDER
                 /\ target = NullTarget
                 /\ targetQueue = <<>>

C8_Witness ==
  /\ last.op = "update"
  /\ pre.state = REST
  /\ pre.timer > 0
  /\ Len(pre.targetQueue) = 2
  /\ pre.targetQueue[1].pos # pre.targetQueue[2].pos
  /\ state = APPROACH

\* C9: an update in APPROACH with a target goes to EAT with timer 0 exactly
\* when the head is closer to the target than approachThreshold; otherwise
\* state, target, queue and timer are unchanged.
C9_ApproachArrival ==
  (last.op = "update" /\ pre.state = APPROACH /\ pre.target # NullTarget) =>
    /\ target = pre.target
    /\ targetQueue = pre.targetQueue
    /\ IF LengthSq(Sub(last.head, pre.target.pos))
            < approachThreshold * approachThreshold
       THEN state = EAT /\ timer = 0
       ELSE state = APPROACH /\ timer = pre.timer

C9_Witness ==
  /\ last.op = "update"
  /\ pre.state = APPROACH
  /\ pre.target # NullTarget
  /\ LengthSq(Sub(last.head, pre.target.pos)) = approachThreshold * approachThreshold
  /\ state = APPROACH

\* C10: the update that enters EAT leaves the timer 0 and does not go on to
\* REST; each later update adds deltaTime, and the step to REST is made by
\* the first update at which the sum reaches eatDuration, never earlier.
C10_EatDuration ==
  /\ (last.op = "update" /\ pre.state = APPROACH) =>
       /\ state \in {APPROACH, EAT}
       /\ state = EAT => timer = 0
  /\ (last.op = "update" /\ pre.state = EAT) =>
       IF pre.timer + last.dt >= eatDuration
       THEN state = REST
       ELSE state = EAT /\ timer = pre.timer + last.dt
  /\ (last.op # "update" /\ pre.state = EAT /\ state = EAT) =>
       timer = pre.timer
  /\ state = EAT => timer < eatDuration

C10_Witness ==
  /\ last.op = "update"
  /\ pre.state = EAT
  /\ pre.timer > 0
  /\ pre.timer + last.dt = eatDuration
  /\ state = REST

\* C11: an update made in WANDER with no target and an empty queue leaves
\* the state WANDER, the target null and the queue empty, whatever the head
\* position, the velocity and deltaTime.
C11_IdleWanderStays ==
  (last.op = "update" /\ pre.state = WANDER /\ pre.target = NullTarget
     /\ pre.targetQueue = <<>>) =>
    /\ state = WANDER
    /\ target = NullTarget
    /\ targetQueue = <<>>
    /\ timer = pre.timer

C11_Witness ==
  /\ last.op = "update"
  /\ last.dt = MaxDelta
  /\ pre.state = WANDER
  /\ pre.target = NullTarget
  /\ pre.targetQueue = <<>>
  /\ onEatCalls > 0
  /\ state = WANDER

\* the ids of the objects in a sequence of targets
Ids(q) == {q[i].id : i \in 1..Len(q)}

\* C14: the queue never holds the current target, and no target is held
\* twice: a queued target that becomes the target leaves the queue in the
\* same step.
C14_QueueExcludesCurrent ==
  /\ target.id \notin Ids(targetQueue)
  /\ Cardinality(Ids(targetQueue)) = Len(targetQueue)
  /\ (target # pre.target /\ pre.targetQueue # <<>>
        /\ target = pre.targetQueue[1]) =>
       targetQueue = Tail(pre.targetQueue)

C14_Witness ==
  /\ target # NullTarget
  /\ pre.targetQueue # <<>>
  /\ target = pre.targetQueue[1]
  /\ Len(targetQueue) = 1

\* the direction enterStationaryState stores: d has unit length and points
\* the way v does
UnitAlong(d, v) ==
  /\ LengthSq(d) = DirScale * DirScale
  /\ d[2] * v[3] - d[3] * v[2] = 0
  /\ d[3] * v[1] - d[1] * v[3] = 0
  /\ d[1] * v[2] - d[2] * v[1] = 0
  /\ d[1] * v[1] + d[2] * v[2] + d[3] * v[3] > 0

\* the rule of capture: normalized velocity, else the direction stored
\* before, else the forward axis
Captured(d, before, v) ==
  IF LengthSq(v) > VelocityEpsilon * VelocityEpsilon
  THEN UnitAlong(d, v)
  ELSE IF before # NullVec THEN d = before ELSE d = <<0, 0, DirScale>>

\* C15 as stated: startTalking called in APPROACH or EAT does not change the
\* state; from WANDER or REST it sets TALK and captures the stationary
\* fields by the rule of the step from EAT to REST.
C15_TalkOnlyFromWanderOrRest ==
  last.op = "startTalking" =>
    /\ pre.state \in {APPROACH, EAT} => state = pre.state
    /\ pre.state \in {WANDER, REST} =>
         /\ state = TALK
         /\ stationaryPosition = last.head
         /\ Captured(stationaryDirection, pre.stationaryDirection, last.vel)

\* C15 amended: startTalking called in any state but TALK (WANDER, APPROACH,
\* EAT, REST) sets TALK with timer 0, captures the stationary fields by the
\* rule of the step from EAT to REST and leaves target and queue alone.
C15_TalkFromAnyOtherState ==
  (last.op = "startTalking" /\ pre.state # TALK) =>
    /\ state = TALK
    /\ timer = 0
    /\ stationaryPosition = last.head
    /\ Captured(stationaryDirection, pre.stationaryDirection, last.vel)
    /\ target = pre.target
    /\ targetQueue = pre.targetQueue

C15_Witness ==
  /\ last.op = "startTalking"
  /\ pre.state = EAT
  /\ pre.timer > 0
  /\ state = TALK
  /\ stationaryPosition = last.head

\* C16: stopTalking in TALK leaves the object as the REST update whose
\* timer reaches restDuration would leave it from the same target and queue.
C16_StopTalkingAsRestTimeout ==
  (last.op = "stopTalking" /\ pre.state = TALK) =>
    Self = updateRest([pre EXCEPT !.state = REST, !.timer = 0], restDuration)

C16_Witness ==
  /\ last.op = "stopTalking"
  /\ pre.state = TALK
  /\ Len(pre.targetQueue) = 2
  /\ state = APPROACH
  /\ target = pre.targetQueue[1]

\* C19: on the step from EAT to REST stationaryPosition is the head position
\* given to that update and stationaryDirection is the velocity normalized
\* when it is longer than 0.001, else the direction stored before if there
\* is one, else (0, 0, 1); the stored direction has unit length.
C19_CaptureOnEatToRest ==
  (last.op = "update" /\ pre.state = EAT /\ state = REST) =>
    /\ stationaryPosition = last.head
    /\ Captured(stationaryDirection, pre.stationaryDirection, last.vel)
    /\ LengthSq(stationaryDirection) = DirScale * DirScale

C19_Witness ==
  /\ last.op = "update"
  /\ pre.state = EAT
  /\ state = REST
  /\ last.vel = <<6, 0, 8>>
  /\ stationaryDirection = <<3, 0, 4>>
  /\ stationaryPosition = last.head

\* the ids of the targets the object holds, as target or in the queue
Held == ({target.id} \ {NullTarget.id}) \cup Ids(targetQueue)
\* the ids of the targets accepted since the last resetTarget
SinceReset == (resetAt + 1)..accepted

\* C12: a target accepted by setFoodTarget is held, as target or in the
\* queue, until onEat fires for it or resetTarget is called: between resets
\* every accepted target is either eaten or still held.
C12_AcceptedTargetsKept ==
  \A id \in SinceReset : id \in Held \/ id \in eaten

\* a step of the queue: nothing, the newly accepted target added at the end,
\* the front removed (it becomes the target), or all removed by resetTarget
QueueStep ==
  \/ targetQueue' = targetQueue
  \/ /\ accepted' = accepted + 1
     /\ Len(targetQueue') = Len(targetQueue) + 1
     /\ SubSeq(targetQueue', 1, Len(targetQueue)) = targetQueue
     /\ targetQueue'[Len(targetQueue')].id = accepted'
  \/ /\ targetQueue # <<>>
     /\ targetQueue' = Tail(targetQueue)
     /\ target' = targetQueue[1]
  \/ resetAt' = accepted /\ resetAt' # resetAt /\ targetQueue' = <<>>

\* of two targets accepted since the last reset, the later one has been
\* current only if the earlier one has
InOrder ==
  \A a \in SinceReset : \A b \in SinceReset :
    (a < b /\ b \in wasCurrent) => a \in wasCurrent

\* C13: the queue grows only at its end and shrinks only at its front, and of
\* two targets accepted in that order without a reset in between the later
\* one is never the current target before the earlier one has been.
C13_PursuedInOrderOfAcceptance == [][QueueStep]_vars /\ []InOrder

C13_Witness ==
  /\ resetAt = 0
  /\ target.id = 3
  /\ wasCurrent = {1, 2, 3}
  /\ eaten = {1, 2}

\* the targets the object holds, as target or in the queue
HeldTargets ==
  (IF target = NullTarget THEN {} ELSE {target})
    \cup {targetQueue[i] : i \in 1..Len(targetQueue)}

\* C17: every target stored by setFoodTarget has x and z within
\* [bounds.min, bounds.max]: a point outside the bounds is clamped to them.
C17_StoredTargetsWithinBounds ==
  \A t \in HeldTargets :
    /\ options.bounds.min <= t.pos[1] /\ t.pos[1] <= options.bounds.max
    /\ options.bounds.min <= t.pos[3] /\ t.pos[3] <= options.bounds.max

\* a configuration with a non-positive duration or threshold, or with
\* bounds.min >= bounds.max
Malformed(o) ==
  \/ o.eatDuration <= 0
  \/ o.restDuration <= 0
  \/ o.approachThreshold <= 0
  \/ o.bounds.min >= o.bounds.max

\* C18: construction with a malformed configuration fails, so no object
\* that update can be called on has one.
C18_MalformedConfigurationRejected == ~Malformed(options)

\* C20: after every frame, in every state, the length of the head velocity
\* is at most maxSpeed
C20_VelocityWithinMaxSpeed ==
  LengthSq(currentVelocity) <= maxSpeed * maxSpeed

\* a frame has moved the head farther than maxSpeed, and the velocity taken
\* from that displacement is not zero
C20_Witness ==
  /\ LengthSq(Sub(headRef, priorPos)) > maxSpeed * maxSpeed
  /\ LengthSq(currentVelocity) > 0
  /\ C20_VelocityWithinMaxSpeed

\* C26: setFoodTarget called while a target is current makes no transition:
\* state, timer, target and the stationary fields stay, and the clone of the
\* given point is appended at the end of the queue, the entries before it
\* keeping their order.
C26_QueuedWithoutTransition ==
  (last.op = "setFoodTarget" /\ pre.target # NullTarget) =>
    /\ state = pre.state
    /\ timer = pre.timer
    /\ target = pre.target
    /\ stationaryPosition = pre.stationaryPosition
    /\ stationaryDirection = pre.stationaryDirection
    /\ targetQueue = Append(pre.targetQueue, [id |-> accepted, pos |-> last.p])

\* a third point is queued behind a second while the fish eats the first
C26_Witness ==
  /\ last.op = "setFoodTarget"
  /\ pre.target # NullTarget
  /\ pre.state = EAT
  /\ pre.timer > 0
  /\ Len(pre.targetQueue) = 1
  /\ Len(targetQueue) = 2

UpdateEdges ==
  {<<WANDER, APPROACH>>, <<APPROACH, EAT>>, <<EAT, REST>>,
   <<REST, APPROACH>>, <<REST, WANDER>>}

\* C30: one update makes at most one transition, and only along
\* WANDER -> APPROACH, APPROACH -> EAT, EAT -> REST, REST -> APPROACH and
\* REST -> WANDER, whatever the durations and deltaTime.
C30_UpdateAlongOneEdge ==
  [][\/ state' = state
     \/ <<state, state'>> \in UpdateEdges
     \/ ~TUpdate]_vars

\* with eatDuration 0 the fish has eaten and rests: APPROACH -> EAT and
\* EAT -> REST were two updates
C30_Witness ==
  /\ options.eatDuration = 0
  /\ state = REST
  /\ onEatCalls = 1

\* the predecessor of segment i (counted from 1) in the positions after a
\* tick: the head for the first segment
Predecessor(i, head, positions) == IF i = 1 THEN head ELSE positions[i - 1]

\* a step is a frame exactly when the time of the scene changes
IsFrame == timeRef' # timeRef

\* C21: after every tick each tail segment is within spacing * 1.05 of its
\* predecessor (the head for the first), spacing being
\* 0.5 * (1 - i / tailCount) ^ 1.2, whatever the head did in the tick
C21_TailWithinSpacing ==
  timeRef > 0 =>
    \A i \in 1..Len(tailPositions) :
      ~Stretched(Sub(tailPositions[i],
                     Predecessor(i, headRef, tailPositions)),
                 Spacing(i - 1, tailCount))

\* the first frame after the first render: the second segment, created half
\* a unit below the first, was farther from it than its spacing allows and
\* has been pulled back
C21_Witness ==
  /\ timeRef \in FrameDeltas
  /\ headRef[1] = Mounted.position[1]
  /\ Stretched(Sub(Mounted.tailPositions[2], tailPositions[1]),
               Spacing(1, tailCount))
  /\ tailPositions[2] # Mounted.tailPositions[2]
  /\ C21_TailWithinSpacing

\* x and z within the bounds of wanderParams
InBounds(position) ==
  /\ boundaryMin <= position[1] /\ position[1] <= boundaryMax
  /\ boundaryMin <= position[3] /\ position[3] <= boundaryMax

\* C22: after every tick made in WANDER or APPROACH the x and z of the head
\* lie within the bounds
C22_HeadWithinBounds ==
  [][(IsFrame /\ state' \in {WANDER, APPROACH}) => InBounds(headRef')]_vars

\* what the loop over the tail reads besides the positions
TailContext ==
  [n |-> tailCount, headDirection |-> lastHeadDir, state |-> state,
   velocity |-> currentVelocity, time |-> timeRef]

\* C23: in each frame the movement of the head acts on the state that the
\* update of the same frame produced, and the update of the tail on the
\* position of the head that the movement of the same frame produced
C23_UpdateThenMovementThenTail ==
  [][IsFrame =>
       /\ \E offset \in WanderOffsets :
            Body' = updateMovement(Self', Body, timeRef', offset)
       /\ (tailCount >= 1 /\ Len(tailPositions) >= 1) =>
            tailPositions'[1] =
              updateSegment(0, headRef', tailPositions[1], TailContext')]_vars

\* a frame has taken the state from APPROACH to EAT and the head has drifted
\* in it
C23_Witness ==
  /\ timeRef > 0
  /\ state = EAT
  /\ timer = 0
  /\ headRef # priorPos

\* C24: no frame throws: whenever the loop over the tail runs over
\* i < tailCount, tailPositions holds a position for every such i, for every
\* order of onEat, the render, the effect and the next frame
C24_FrameNeverThrows == ~thrown

\* C25: the update of the tail is one pass in the order of the indices;
\* segment i is eased towards, and corrected against, the position its
\* predecessor has after the same frame (the head's for the first segment),
\* and the correction follows the easing for every segment
C25_TailUsesCurrentPredecessor ==
  [][IsFrame =>
       \A i \in 1..Len(tailPositions) :
         i <= tailCount =>
           tailPositions'[i] =
             updateSegment(i - 1, Predecessor(i, headRef', tailPositions'),
                           tailPositions[i], TailContext')]_vars

\* a frame in which the head moved, so that the second segment follows a
\* predecessor that is no longer where it was before the frame
C25_Witness ==
  /\ timeRef > 0
  /\ headRef # priorPos
  /\ Len(tailPositions) >= 2
  /\ tailPositions[1] # Mounted.tailPositions[1]
  /\ tailPositions[2] # Mounted.tailPositions[2]

\* C29: a tick made in EAT steers nothing: it displaces the head by 0.98
\* times the velocity before the tick, the velocity becomes that
\* displacement, and the speed does not increase
C29_EatDriftIsDamped ==
  [][(IsFrame /\ state' = EAT) =>
       /\ headRef' = Add(headRef, Times(currentVelocity, 98, 100))
       /\ currentVelocity' = Times(currentVelocity, 98, 100)
       /\ LengthSq(currentVelocity') <= LengthSq(currentVelocity)]_vars

\* a tick made in EAT has moved the head, and left it a velocity
C29_Witness ==
  /\ timeRef > 0
  /\ state = EAT
  /\ headRef # priorPos
  /\ currentVelocity # <<0, 0, 0>>

\* C28: on every tick made in WANDER or APPROACH the velocity of the head
\* after the tick differs from the velocity before it by at most
\* maxSteerForce (one step of 0.001 is allowed for the rounding)
C28_VelocityChangeWithinSteerForce ==
  [][(IsFrame /\ state' \in {WANDER, APPROACH}) =>
       LengthSq(Sub(currentVelocity', currentVelocity))
         <= (maxSteerForce + 1) * (maxSteerForce + 1)]_vars

\* C33: in every state reached through the public methods, WANDER has no
\* target and an empty queue
C33_WanderHoldsNothing ==
  state = WANDER => (target = NullTarget /\ targetQueue = <<>>)

\* stopTalking has ended a TALK that held a target, and the state is WANDER
C33_Witness ==
  /\ last.op = "stopTalking"
  /\ pre.state = TALK
  /\ pre.target # NullTarget
  /\ state = WANDER

\* C34: in every state reached through the public methods, APPROACH and EAT
\* have a target, so the guard on the target in the APPROACH case of update
\* skips nothing: an update made within approachThreshold of it enters EAT
C34_ApproachAndEatHaveTarget ==
  /\ state \in {APPROACH, EAT} => target # NullTarget
  /\ (state = APPROACH /\ target # NullTarget) =>
       \A h \in HeadPositions, v \in Velocities, dt \in DeltaTimes :
         Near(h) => update(Self, h, v, dt).state = EAT

\* the end of a REST or of a TALK has taken a queued target into APPROACH
C34_Witness ==
  /\ last.op \in {"update", "stopTalking"}
  /\ pre.state \in {REST, TALK}
  /\ pre.targetQueue # <<>>
  /\ state = APPROACH
  /\ target = Head(pre.targetQueue)

\* C35: startTalking in TALK changes no field, stopTalking outside TALK
\* changes no field, a second startTalking changes nothing after the first
\* and a second stopTalking changes nothing after the first
C35_TalkCallsIdempotent ==
  /\ \A once \in {stopTalking(Self)} : stopTalking(once) = once
  /\ state # TALK => stopTalking(Self) = Self
  /\ \A h \in HeadPositions, v \in Velocities :
       /\ state = TALK => startTalking(Self, h, v) = Self
       /\ \A once \in {startTalking(Self, h, v)} :
            \A h2 \in HeadPositions, v2 \in Velocities :
              startTalking(once, h2, v2) = once

\* startTalking was called in TALK with another position than the captured
\* one, and no field has changed
C35_Witness ==
  /\ last.op = "startTalking"
  /\ pre.state = TALK
  /\ state = TALK
  /\ stationaryPosition # NullVec
  /\ last.head # stationaryPosition
  /\ Self = pre

\* C36: the timer is 0 right after every operation that changed the state,
\* and only an update made in EAT or REST increases it
C36_TimerRestartsWithState ==
  /\ state # pre.state => timer = 0
  /\ timer > pre.timer => (last.op = "update" /\ pre.state \in {EAT, REST})

\* the update that ended an EAT whose timer had run has entered REST
C36_Witness ==
  /\ last.op = "update"
  /\ pre.state = EAT
  /\ pre.timer > 0
  /\ state = REST
  /\ timer = 0

\* C37: a head that started within the bounds has its x and z within the
\* bounds after every tick, whatever the state
C37_HeadStaysWithinBounds ==
  InBounds(origin) => InBounds(headRef)

\* C31: while frames with a positive deltaTime go on and nothing is called
\* from outside, EAT is followed by REST, REST by APPROACH or WANDER, and a
\* REST with an empty queue by WANDER
C31_EatAndRestEnd ==
  \A k \in 0..MaxInputs :
    /\ (state = EAT /\ inputs = k) ~> (state = REST \/ inputs > k)
    /\ (state = REST /\ inputs = k)
         ~> (state \in {APPROACH, WANDER} \/ inputs > k)
    /\ (state = REST /\ targetQueue = <<>> /\ inputs = k)
         ~> (state = WANDER \/ inputs > k)

\* after one call from outside, the setFoodTarget of a single target, the
\* target has been eaten and the state is WANDER again
C31_Witness ==
  /\ inputs = 1
  /\ accepted = 1
  /\ eaten = {1}
  /\ state = WANDER

\* C32: while frames go on, without resetTarget and with every TALK ended by
\* stopTalking, every target accepted by setFoodTarget becomes the current
\* target and is consumed
C32_AcceptedEventuallyEaten ==
  \A id \in 1..MaxTargets :
    (accepted >= id) ~> (id \in wasCurrent /\ id \in eaten)

====
